---- MODULE Spec2Model ----
(***************************************************************************)
(* Model of the food-recall mirror (src/api/main.py): the fetch-and-upsert *)
(* routine fetch_and_update_data(), its two callers (the weekly scheduler  *)
(* thread and the GET /update-data handler) and the read endpoints.        *)
(***************************************************************************)
EXTENDS Integers, Sequences, FiniteSets, TLC

\* ------------------------------------------------------------------ bounds

\* Longest "results" array the upstream returns in the model (the query
\* asks for limit=15).
MaxResults == 2

\* The scheduling period in ticks of the scheduler loop (one week of
\* one-second sleeps in the program). Lateness of the job is tracked up to
\* one whole period; later than that is the same.
Period == 2

\* Stand-in for the read cap of 1000 that the specification states for
\* GET /data, scaled so that the store can hold more than the cap.
ReadCap == 1

\* ------------------------------------------------------------- data model

\* The value of a field a document or a fetched record does not have.
Missing == "<missing>"

\* Fields of a recall record (models.py); the descriptive fields are opaque
\* to the program, so one always-present and one optional field stand for them.
Fields == {"recall_number", "reason_for_recall", "code_info"}

\* Fields of a stored document: the record's fields and the store key.
DocFields == Fields \cup {"_id"}

Rec(rn, reason, code) ==
    [f \in Fields |-> CASE f = "recall_number" -> rn
                        [] f = "reason_for_recall" -> reason
                        [] OTHER -> code]

\* The records the upstream may return.
Records ==
    { Rec("F-100", "Listeria", "LOT1"),
      Rec("F-100", "Salmonella", Missing),
      Rec("F-200", "Listeria", Missing),
      Rec(Missing, "Listeria", Missing) }

\* The recall numbers among them.
Keys == {r["recall_number"] : r \in Records} \ {Missing}

\* The "results" arrays the upstream may return.
Responses == UNION { [1..n -> Records] : n \in 0..MaxResults }

\* How requests.get / raise_for_status / response.json can fail.
FetchFailures == {"network_error", "bad_status", "bad_body"}

\* ------------------------------------------------------------- processes

Sched == "sched"
Handlers == {"h1"}
Procs == {Sched} \cup Handlers

\* What a sync cycle fetched: the results array, the failure of the
\* request, or (before any cycle) nothing.
Results(r) == [kind |-> "results", results |-> r]
Failure(f) == [kind |-> "failure", e |-> f]
Nothing == [kind |-> "nothing"]

\* The record that stands for "no record written yet".
NoRec == [f \in Fields |-> Missing]

VARIABLES
    coll,       \* the MongoDB collection: a set of documents
    pc,         \* where each caller of fetch_and_update_data() is
    data,       \* per caller: the fetched results being iterated
    idx,        \* per caller: index of the next record of the loop
    outcome,    \* per caller: what its last sync printed
    resp,       \* per handler: the payload GET /update-data returned
    untilDue,   \* ticks until the weekly job is due (<= 0: due)
    reply,      \* the payload the last GET / or GET /data returned
    requests,   \* per caller: upstream requests its current or last sync issued
    latest,     \* history: per key, the record update_one last wrote for it
    prev,       \* history: the last sync cycle that returned
    overlap     \* history: the syncs run since no sync was last in flight

vars == <<coll, pc, data, idx, outcome, resp, untilDue, reply, requests, latest, prev, overlap>>

\* The history variables that the specifications below maintain.
hist == <<prev, overlap>>

\* ------------------------------------------------------------- the store

\* As NewDoc, were the filter of the upsert not on _id: the store gives the
\* inserted document a key of its own.
NewDocObjectId(id) == [f \in DocFields |-> IF f = "_id" THEN "oid1" ELSE Missing]

\* A fresh document holding only its key.
NewDoc(id) == [f \in DocFields |-> IF f = "_id" THEN id ELSE Missing]

\* As SetFields, were the update {"$setOnInsert": record}: only a document
\* the upsert has just created gets the record's fields.
SetFieldsOnInsert(d, rec) ==
    IF \A f \in Fields : d[f] = Missing
    THEN [f \in DocFields |-> IF f \in Fields /\ rec[f] # Missing THEN rec[f] ELSE d[f]]
    ELSE d

\* As SetFields, were the first write of a field to win: a field the
\* document has already is kept.
SetFieldsKeepOld(d, rec) ==
    [f \in DocFields |-> IF f \in Fields /\ d[f] = Missing THEN rec[f] ELSE d[f]]

\* {"$set": record}: every field of the record is written, every other
\* field of the document is kept.
SetFields(d, rec) ==
    [f \in DocFields |-> IF f \in Fields /\ rec[f] # Missing THEN rec[f] ELSE d[f]]

\* Keys the store would make up for documents inserted without one.
ObjectIds == {"oid1", "oid2", "oid3", "oid4", "oid5", "oid6"}

\* As UpdateOne, were the write collection.insert_one(rec): a new document
\* under a fresh key at every call.
InsertOne(c, id, rec) ==
    LET free == {o \in ObjectIds : \A d \in c : d["_id"] # o}
    IN  IF free = {}
        THEN c
        ELSE LET o == CHOOSE x \in free : TRUE
             IN  c \cup {[f \in DocFields |-> IF f = "_id" THEN o ELSE rec[f]]}

\* As UpdateOne, were the strategy replace-all: the collection is cleared
\* and the record inserted.
UpdateOneReplaceAll(c, id, rec) ==
    {[f \in DocFields |-> IF f = "_id" THEN id ELSE rec[f]]}

\* collection.update_one({"_id": id}, {"$set": rec}, upsert=True)
UpdateOne(c, id, rec) ==
    LET matched == {d \in c : d["_id"] = id}
    IN  IF matched # {}
        THEN LET d == CHOOSE x \in matched : TRUE
             IN  (c \ {d}) \cup {SetFields(d, rec)}
        ELSE c \cup {SetFields(NewDoc(id), rec)}

\* list(collection.find())
Find(c) == c

\* format_data: str(_id); the keys written by the sync are strings already.
format_data(d) == [d EXCEPT !["_id"] = d["_id"]]

\* ------------------------------------------------------------------ init

Printed(what, e) == [printed |-> what, e |-> e]

Init ==
    /\ coll = {}
    /\ pc = [p \in Procs |-> "idle"]
    /\ data = [p \in Procs |-> <<>>]
    /\ idx = [p \in Procs |-> 0]
    /\ outcome = [p \in Procs |-> Printed("none", "-")]
    /\ resp = [h \in Handlers |-> "none"]
    /\ untilDue = Period
    /\ reply = [kind |-> "none"]
    /\ requests = [p \in Procs |-> 0]
    /\ latest = [k \in Keys |-> NoRec]
    /\ overlap = [kind |-> "none"]
    /\ prev = [fetched |-> Nothing, written |-> 0, coll |-> {}, clean |-> TRUE, before |-> {}]

\* ------------------------------------------------- fetch_and_update_data

\* As AfterReturn, were there no except clause: the exception of a failed
\* sync ends the scheduler thread.
AfterReturnUncaught(p, what) ==
    IF p = Sched /\ what = "error" THEN "dead" ELSE "idle"

\* Where a caller is once fetch_and_update_data() has returned, having
\* printed `what`: the except clause lets no exception out.
AfterReturn(p, what) == "idle"

\* What GET /update-data answers once its sync has returned.
UpdateDataPayload(what) == "message"

\* As NextRun, were the next run counted from the time the job was due: a
\* job that ran late is due again at once.
NextRunFromDue(due) == due + Period

\* The next run of the weekly job, set when a run of it has returned with
\* the job `due` ticks from its due time: a period from now.
NextRun(due) == Period

\* fetch_and_update_data() returns to its caller, having printed `what`
\* (and the exception e): run_pending() reschedules the job, update_data()
\* answers the request.
Return(p, what, e) ==
    /\ outcome' = [outcome EXCEPT ![p] = Printed(what, e)]
    /\ pc' = [pc EXCEPT ![p] = AfterReturn(p, what)]
    /\ data' = [data EXCEPT ![p] = <<>>]
    /\ idx' = [idx EXCEPT ![p] = 0]
    /\ IF p = Sched
       THEN /\ untilDue' = NextRun(untilDue)
            /\ UNCHANGED resp
       ELSE /\ resp' = [resp EXCEPT ![p] = UpdateDataPayload(what)]
            /\ UNCHANGED untilDue

\* The scheduler loop finds the job due and runs it.
SchedCall ==
    /\ pc[Sched] = "idle"
    /\ untilDue <= 0
    /\ pc' = [pc EXCEPT ![Sched] = "fetch"]
    /\ outcome' = [outcome EXCEPT ![Sched] = Printed("none", "-")]
    /\ requests' = [requests EXCEPT ![Sched] = 0]
    /\ UNCHANGED <<coll, data, idx, resp, untilDue, reply, latest>>

\* A GET /update-data request arrives and calls fetch_and_update_data().
UpdateCall(h) ==
    /\ pc[h] = "idle"
    /\ pc' = [pc EXCEPT ![h] = "fetch"]
    /\ outcome' = [outcome EXCEPT ![h] = Printed("none", "-")]
    /\ resp' = [resp EXCEPT ![h] = "none"]
    /\ requests' = [requests EXCEPT ![h] = 0]
    /\ UNCHANGED <<coll, data, idx, untilDue, reply, latest>>

\* As FetchOk, were the collection cleared once the results are in (the
\* replace-all strategy: clear, then insert what was fetched).
FetchOkThenClear(p) ==
    /\ pc[p] = "fetch"
    /\ \E r \in Responses :
        /\ data' = [data EXCEPT ![p] = r]
        /\ idx' = [idx EXCEPT ![p] = 1]
        /\ pc' = [pc EXCEPT ![p] = "loop"]
    /\ requests' = [requests EXCEPT ![p] = requests[p] + 1]
    /\ coll' = {}
    /\ UNCHANGED <<outcome, resp, untilDue, reply, latest>>

\* requests.get, raise_for_status and response.json succeed.
FetchOk(p) ==
    /\ pc[p] = "fetch"
    /\ \E r \in Responses :
        /\ data' = [data EXCEPT ![p] = r]
        /\ idx' = [idx EXCEPT ![p] = 1]
        /\ pc' = [pc EXCEPT ![p] = "loop"]
    /\ requests' = [requests EXCEPT ![p] = requests[p] + 1]
    /\ UNCHANGED <<coll, outcome, resp, untilDue, reply, latest>>

\* As FetchFail, were the collection cleared before the request is made
\* (the replace-all strategy).
FetchFailAfterClear(p) ==
    /\ pc[p] = "fetch"
    /\ \E f \in FetchFailures : Return(p, "error", f)
    /\ requests' = [requests EXCEPT ![p] = requests[p] + 1]
    /\ coll' = {}
    /\ UNCHANGED <<reply, latest>>

\* As FetchFail, were a failed request tried again, twice at most, before
\* the sync gives up.
FetchFailRetry(p) ==
    /\ pc[p] = "fetch"
    /\ requests' = [requests EXCEPT ![p] = requests[p] + 1]
    /\ IF requests[p] < 2
       THEN UNCHANGED <<pc, data, idx, outcome, resp, untilDue>>
       ELSE \E f \in FetchFailures : Return(p, "error", f)
    /\ UNCHANGED <<coll, reply, latest>>

\* One of them raises: the except clause prints the error.
FetchFail(p) ==
    /\ pc[p] = "fetch"
    /\ \E f \in FetchFailures : Return(p, "error", f)
    /\ requests' = [requests EXCEPT ![p] = requests[p] + 1]
    /\ UNCHANGED <<coll, reply, latest>>

\* As UpsertOk, were a record written only when its key has no document
\* yet (insert if absent).
UpsertOkIfAbsent(p) ==
    /\ pc[p] = "loop"
    /\ idx[p] <= Len(data[p])
    /\ LET rec == data[p][idx[p]]
       IN  /\ rec["recall_number"] # Missing
           /\ coll' = IF \E d \in coll : d["_id"] = rec["recall_number"]
                      THEN coll
                      ELSE UpdateOne(coll, rec["recall_number"], rec)
           /\ latest' = [latest EXCEPT ![rec["recall_number"]] = rec]
    /\ idx' = [idx EXCEPT ![p] = idx[p] + 1]
    /\ UNCHANGED <<pc, data, outcome, resp, untilDue, reply, requests>>

\* As UpsertOk, were the results written from the last to the first.
UpsertOkReversed(p) ==
    /\ pc[p] = "loop"
    /\ idx[p] <= Len(data[p])
    /\ LET rec == data[p][Len(data[p]) - idx[p] + 1]
       IN  /\ rec["recall_number"] # Missing
           /\ coll' = UpdateOne(coll, rec["recall_number"], rec)
           /\ latest' = [latest EXCEPT ![rec["recall_number"]] = rec]
    /\ idx' = [idx EXCEPT ![p] = idx[p] + 1]
    /\ UNCHANGED <<pc, data, outcome, resp, untilDue, reply, requests>>

\* One iteration of the loop: update_one succeeds.
UpsertOk(p) ==
    /\ pc[p] = "loop"
    /\ idx[p] <= Len(data[p])
    /\ LET rec == data[p][idx[p]]
       IN  /\ rec["recall_number"] # Missing
           /\ coll' = UpdateOne(coll, rec["recall_number"], rec)
           /\ latest' = [latest EXCEPT ![rec["recall_number"]] = rec]
    /\ idx' = [idx EXCEPT ![p] = idx[p] + 1]
    /\ UNCHANGED <<pc, data, outcome, resp, untilDue, reply, requests>>

\* One iteration of the loop: the record has no recall_number, so
\* record["recall_number"] raises; the except clause prints the error.
UpsertKeyError(p) ==
    /\ pc[p] = "loop"
    /\ idx[p] <= Len(data[p])
    /\ data[p][idx[p]]["recall_number"] = Missing
    /\ Return(p, "error", "KeyError")
    /\ UNCHANGED <<coll, reply, requests, latest>>

\* As UpsertStoreFail, were the batch rolled back on a failure: the
\* documents of the records written so far are removed.
UpsertStoreFailRollback(p) ==
    /\ pc[p] = "loop"
    /\ idx[p] <= Len(data[p])
    /\ data[p][idx[p]]["recall_number"] # Missing
    /\ Return(p, "error", "store")
    /\ coll' = {d \in coll : \A j \in 1..(idx[p] - 1) : d["_id"] # data[p][j]["recall_number"]}
    /\ UNCHANGED <<reply, requests, latest>>

\* One iteration of the loop: update_one raises, nothing is written; the
\* except clause prints the error.
UpsertStoreFail(p) ==
    /\ pc[p] = "loop"
    /\ idx[p] <= Len(data[p])
    /\ data[p][idx[p]]["recall_number"] # Missing
    /\ Return(p, "error", "store")
    /\ UNCHANGED <<coll, reply, requests, latest>>

\* The loop is exhausted: "Data successfully updated." is printed.
Finish(p) ==
    /\ pc[p] = "loop"
    /\ idx[p] > Len(data[p])
    /\ Return(p, "success", "-")
    /\ UNCHANGED <<coll, reply, requests, latest>>

\* ------------------------------------------------------------- scheduler

\* One second passes in run_schedule's loop.
Tick ==
    /\ untilDue > -Period
    /\ untilDue' = untilDue - 1
    /\ UNCHANGED <<coll, pc, data, idx, outcome, resp, reply, requests, latest>>

\* ------------------------------------------------------- read endpoints

\* GET /
root ==
    /\ reply' = [kind |-> "welcome"]
    /\ UNCHANGED <<coll, pc, data, idx, outcome, resp, untilDue, requests, latest>>

\* As get_data, were the documents taken out of the collection as they are
\* read.
get_data_draining ==
    /\ reply' = [kind |-> "data", docs |-> {format_data(d) : d \in Find(coll)}]
    /\ coll' = {}
    /\ UNCHANGED <<pc, data, idx, outcome, resp, untilDue, requests, latest>>

\* GET /data, the collection is read.
get_data ==
    /\ reply' = [kind |-> "data", docs |-> {format_data(d) : d \in Find(coll)}]
    /\ UNCHANGED <<coll, pc, data, idx, outcome, resp, untilDue, requests, latest>>

\* As get_data_error, were there no except clause in get_data: the
\* exception leaves the handler and the request fails.
get_data_uncaught ==
    /\ reply' = [kind |-> "unhandled_exception"]
    /\ UNCHANGED <<coll, pc, data, idx, outcome, resp, untilDue, requests, latest>>

\* GET /data, reading the collection raises.
get_data_error ==
    /\ reply' = [kind |-> "error"]
    /\ UNCHANGED <<coll, pc, data, idx, outcome, resp, untilDue, requests, latest>>

\* ---------------------------------------------------------- specifications

\* A sync cycle of p returns.
Ends(p) ==
    \/ FetchFail(p)
    \/ UpsertKeyError(p)
    \/ UpsertStoreFail(p)
    \/ Finish(p)

\* The program: the scheduler thread and the request handlers run
\* fetch_and_update_data() concurrently.
Next ==
    \/ SchedCall /\ UNCHANGED hist
    \/ \E h \in Handlers : UpdateCall(h) /\ UNCHANGED hist
    \/ \E p \in Procs : FetchOk(p) /\ UNCHANGED hist
    \/ \E p \in Procs : FetchFail(p) /\ UNCHANGED hist
    \/ \E p \in Procs : UpsertOk(p) /\ UNCHANGED hist
    \/ \E p \in Procs : UpsertKeyError(p) /\ UNCHANGED hist
    \/ \E p \in Procs : UpsertStoreFail(p) /\ UNCHANGED hist
    \/ \E p \in Procs : Finish(p) /\ UNCHANGED hist
    \/ Tick /\ UNCHANGED hist

Spec == Init /\ [][Next]_vars

\* The program with the fairness its scheduling gives: time passes, and the
\* scheduler loop, polling every second, runs a job that is due.
FairSpec == Spec /\ WF_vars(Tick /\ UNCHANGED hist) /\ WF_vars(SchedCall /\ UNCHANGED hist)

\* No sync cycle is in flight.
NoneRunning == \A q \in Procs : pc[q] = "idle"

\* What the cycle of p that returns in this step fetched: the results, or
\* the failure of the request.
Fetched(p) == IF pc[p] = "fetch" THEN Failure(outcome'[p].e) ELSE Results(data[p])

\* The history of the cycle of p that returns in this step; `before` holds
\* the store the previous cycle left, when that cycle fetched the same and
\* neither of the two met a store failure, and is empty otherwise.
Remember(p) ==
    LET clean == outcome'[p].e # "store"
    IN  /\ prev' = [fetched |-> Fetched(p),
                    written |-> IF pc[p] = "fetch" THEN 0 ELSE idx[p] - 1,
                    coll |-> coll',
                    clean |-> clean,
                    before |-> IF prev.fetched = Fetched(p) /\ prev.clean /\ clean
                               THEN {prev.coll} ELSE {}]
        /\ UNCHANGED overlap

\* Sync cycles run one after another (in succession): each call of
\* fetch_and_update_data() is made once the one before it has returned.
SeqNext ==
    \/ \E h \in Handlers : NoneRunning /\ UpdateCall(h) /\ UNCHANGED hist
    \/ \E h \in Handlers : FetchOk(h) /\ UNCHANGED hist
    \/ \E h \in Handlers : UpsertOk(h) /\ UNCHANGED hist
    \/ \E h \in Handlers : Ends(h) /\ Remember(h)

SeqSpec == Init /\ [][SeqNext]_vars

\* The request-serving path: GET /, GET /data and GET /update-data.
ReadNext ==
    \/ \E h \in Handlers : UpdateCall(h) /\ UNCHANGED hist
    \/ \E h \in Handlers : FetchOk(h) /\ UNCHANGED hist
    \/ \E h \in Handlers : UpsertOk(h) /\ UNCHANGED hist
    \/ \E h \in Handlers : Ends(h) /\ UNCHANGED hist
    \/ root /\ UNCHANGED hist
    \/ get_data /\ UNCHANGED hist
    \/ get_data_error /\ UNCHANGED hist

ReadSpec == Init /\ [][ReadNext]_vars

\* The scheduler thread alone, with the fairness its loop gives: time
\* passes, and the loop, polling every second, runs a job that is due.
SchedNext ==
    \/ SchedCall /\ UNCHANGED hist
    \/ FetchOk(Sched) /\ UNCHANGED hist
    \/ UpsertOk(Sched) /\ UNCHANGED hist
    \/ Ends(Sched) /\ UNCHANGED hist
    \/ Tick /\ UNCHANGED hist

SchedSpec ==
    /\ Init
    /\ [][SchedNext]_vars
    /\ WF_vars(Tick /\ UNCHANGED hist)
    /\ WF_vars(SchedCall /\ UNCHANGED hist)

\* The whole HTTP surface and the scheduler, the sync cycles one after
\* another: GET / and GET /data are served at any time, also while a sync
\* cycle is in flight.
ServeNext ==
    \/ NoneRunning /\ SchedCall /\ UNCHANGED hist
    \/ \E h \in Handlers : NoneRunning /\ UpdateCall(h) /\ UNCHANGED hist
    \/ \E p \in Procs : FetchOk(p) /\ UNCHANGED hist
    \/ \E p \in Procs : UpsertOk(p) /\ UNCHANGED hist
    \/ \E p \in Procs : Ends(p) /\ UNCHANGED hist
    \/ Tick /\ UNCHANGED hist
    \/ root /\ UNCHANGED hist
    \/ get_data /\ UNCHANGED hist
    \/ get_data_error /\ UNCHANGED hist

ServeSpec == Init /\ [][ServeNext]_vars

\* The history of the syncs run since no sync was last in flight: the
\* store they started from and, as long as every one of them fetched the
\* same results and none met a failure of the request or of the store,
\* those results and how many of them have returned (2: two or more).
Begin ==
    IF NoneRunning
    THEN overlap' = [kind |-> "same", base |-> coll, fetched |-> Nothing, done |-> 0]
    ELSE UNCHANGED overlap

Observe(p) ==
    IF overlap.kind = "same"
    THEN IF overlap.fetched \in {Nothing, Results(data'[p])}
         THEN overlap' = [overlap EXCEPT !.fetched = Results(data'[p])]
         ELSE overlap' = [kind |-> "other"]
    ELSE UNCHANGED overlap

Failed == overlap' = IF overlap.kind = "same" THEN [kind |-> "other"] ELSE overlap

Returned ==
    IF overlap.kind = "same"
    THEN overlap' = [overlap EXCEPT !.done = IF overlap.done < 2 THEN overlap.done + 1 ELSE 2]
    ELSE UNCHANGED overlap

\* The program as in Spec, with the history of overlapping syncs kept.
ConcNext ==
    \/ SchedCall /\ Begin /\ UNCHANGED prev
    \/ \E h \in Handlers : UpdateCall(h) /\ Begin /\ UNCHANGED prev
    \/ \E p \in Procs : FetchOk(p) /\ Observe(p) /\ UNCHANGED prev
    \/ \E p \in Procs : FetchFail(p) /\ Failed /\ UNCHANGED prev
    \/ \E p \in Procs : UpsertOk(p) /\ UNCHANGED hist
    \/ \E p \in Procs : UpsertKeyError(p) /\ Returned /\ UNCHANGED prev
    \/ \E p \in Procs : UpsertStoreFail(p) /\ Failed /\ UNCHANGED prev
    \/ \E p \in Procs : Finish(p) /\ Returned /\ UNCHANGED prev
    \/ Tick /\ UNCHANGED hist

ConcSpec == Init /\ [][ConcNext]_vars

\* ------------------------------------------------------------- properties

\* The documents of collection c stored under key k.
DocsOf(c, k) == {d \in c : d["_id"] = k}

\* Document d holds every field value of record rec.
Carries(d, rec) == \A f \in Fields : rec[f] # Missing => d[f] = rec[f]

\* The last of the first n records of seq with key k.
LastWith(seq, n, k) ==
    LET at == {i \in 1..n : seq[i]["recall_number"] = k}
    IN  seq[CHOOSE i \in at : \A j \in at : j <= i]

\* Collection c holds each of the first n records of seq, a record that
\* recurs in them with the values of its last occurrence.
PrefixStored(c, seq, n) ==
    \A j \in 1..n :
        \E d \in DocsOf(c, seq[j]["recall_number"]) :
            Carries(d, LastWith(seq, n, seq[j]["recall_number"]))

\* C1. Idempotence: when two sync cycles run in succession on the same
\* upstream response (the same results array, or the same failure of the
\* request) and the store takes their writes, the store after the second
\* cycle is the store after the first.
C1_Idempotence == \A c \in prev.before : prev.coll = c

\* C1: the second of two cycles on one response has returned, having
\* written two records into a store the first left non-empty.
C1_Witness ==
    /\ prev.before # {}
    /\ prev.fetched.kind = "results"
    /\ prev.written = 2
    /\ prev.coll # {}

\* C2. Uniqueness and upsert correctness: after any sequence of sync
\* cycles no two documents share a key; every recall_number a cycle has
\* written has exactly one document, which holds the field values of the
\* record most recently written for it; and once a cycle has gone through
\* its whole results array, that record is, for every key of the array, the
\* key's last record in the array.
C2_Uniqueness ==
    /\ \A d1 \in coll, d2 \in coll : d1["_id"] = d2["_id"] => d1 = d2
    /\ \A k \in Keys :
        latest[k] # NoRec =>
            /\ Cardinality(DocsOf(coll, k)) = 1
            /\ \A d \in DocsOf(coll, k) : Carries(d, latest[k])
    /\ ( /\ prev.fetched.kind = "results"
         /\ prev.clean
         /\ prev.written = Len(prev.fetched.results)
         /\ \A h \in Handlers : pc[h] # "loop" )
       => \A j \in 1..prev.written :
            LET k == prev.fetched.results[j]["recall_number"]
            IN  latest[k] = LastWith(prev.fetched.results, prev.written, k)

\* C2: F-100, first fetched with reason "Listeria" (and a code_info), then
\* with "Salmonella", is one document with "Salmonella".
C2_Witness ==
    /\ latest["F-100"]["reason_for_recall"] = "Salmonella"
    /\ \E d \in coll :
        /\ d["_id"] = "F-100"
        /\ d["reason_for_recall"] = "Salmonella"
        /\ d["code_info"] = "LOT1"
    /\ NoneRunning

\* C3. Full replace, not merge: the document of a key consists of exactly
\* the fields of the record most recently written for it; a field that
\* record omits is not in the document.
C3_FullReplace ==
    \A k \in Keys :
        latest[k] # NoRec =>
            \A d \in DocsOf(coll, k) : \A f \in Fields : d[f] = latest[k][f]

\* C4. A fetch failure leaves the store untouched: the call and the failing
\* request of a sync cycle write nothing, and the cycle ends there with the
\* error printed.
C4_FetchFailureLeavesStore ==
    [][\A p \in Procs :
        /\ (pc[p] = "idle" /\ pc'[p] = "fetch") => coll' = coll
        /\ (pc[p] = "fetch" /\ outcome'[p].e \in FetchFailures) =>
              /\ coll' = coll
              /\ pc'[p] = "idle"
              /\ outcome'[p].printed = "error"
      ]_vars

\* C4: a sync cycle has failed at its request, with documents in the store.
C4_Witness ==
    \E p \in Procs :
        /\ pc[p] = "idle"
        /\ outcome[p].e \in FetchFailures
        /\ coll # {}

\* C5. GET /update-data reports the outcome of its sync: it answers with
\* the {message: ...} payload only when the sync it ran succeeded, and with
\* an error payload when that sync failed.
C5_UpdateReportsOutcome ==
    \A h \in Handlers :
        /\ resp[h] = "message" => outcome[h].printed = "success"
        /\ (resp[h] # "none" /\ outcome[h].printed = "error") => resp[h] = "error"

\* C6. Mutual exclusion of sync: at most one execution of
\* fetch_and_update_data() is in progress, whoever started it.
C6_MutualExclusion == Cardinality({p \in Procs : pc[p] # "idle"}) <= 1

\* C7. Scheduler skip-not-queue: the scheduler starts a sync only when none
\* of its own is in flight and the job is due; ticks that come due while
\* its sync runs start nothing; and when that sync returns the job is due a
\* whole period later, so no catch-up sync follows for the ticks missed.
C7_SkipNotQueue ==
    [][ /\ (pc'[Sched] = "fetch" /\ pc[Sched] # "fetch") =>
              (pc[Sched] = "idle" /\ untilDue <= 0)
        /\ (pc[Sched] # "idle" /\ untilDue' # untilDue /\ pc'[Sched] # "idle") =>
              pc'[Sched] = pc[Sched]
        /\ (pc[Sched] # "idle" /\ pc'[Sched] = "idle") => untilDue' = Period
      ]_vars

\* C7: a scheduled sync is running and a whole further period has passed
\* since the job was due.
C7_Witness ==
    /\ pc[Sched] = "loop"
    /\ idx[Sched] = 2
    /\ untilDue = -Period

\* C8. The scheduler survives sync failures: a scheduled sync that fails
\* prints the error and returns to the scheduler loop with the job due a
\* period later (no immediate retry), and the loop then eventually calls
\* fetch_and_update_data() again.
C8_SchedulerSurvives ==
    /\ [][(pc[Sched] # "idle" /\ outcome'[Sched].printed = "error") =>
            (pc'[Sched] = "idle" /\ untilDue' = Period)]_vars
    /\ (pc[Sched] # "fetch" /\ outcome[Sched].printed = "error") ~> (pc[Sched] = "fetch")

\* C8: a scheduled sync has failed at a store write and the loop waits
\* for the next tick.
C8_Witness ==
    /\ pc[Sched] = "idle"
    /\ outcome[Sched] = Printed("error", "store")
    /\ untilDue > 0

\* C9. Read bound: GET /data returns at most ReadCap records, whatever the
\* store holds.
C9_ReadBound == reply.kind = "data" => Cardinality(reply.docs) <= ReadCap

\* C10. Partial apply on store failure: when the write of record r_i fails,
\* the store is left as the writes of r_1..r_(i-1) made it (no rollback,
\* r_i not written), the cycle ends there (r_i..r_n are not written by it)
\* and the error is printed, not the success message.
C10_PartialApply ==
    [][\A h \in Handlers :
        (pc[h] = "loop" /\ outcome'[h].e = "store") =>
            /\ coll' = coll
            /\ PrefixStored(coll', data[h], idx[h] - 1)
            /\ pc'[h] = "idle"
            /\ outcome'[h].printed = "error"
      ]_vars

\* C10: a cycle has failed at its second write, the first still stored.
C10_Witness ==
    /\ ~prev.clean
    /\ prev.written = 1
    /\ prev.coll = coll
    /\ PrefixStored(coll, prev.fetched.results, 1)
    /\ \A h \in Handlers : outcome[h] = Printed("error", "store")

\* C11. Empty-upstream tolerance: a sync whose response has an empty
\* results array writes nothing, neither when the response arrives nor when
\* the loop over it ends, and returns having printed the success message,
\* not an error.
C11_EmptyUpstream ==
    [][\A h \in Handlers :
        /\ (pc[h] = "fetch" /\ pc'[h] = "loop" /\ data'[h] = <<>>) => coll' = coll
        /\ (pc[h] = "loop" /\ data[h] = <<>>) =>
              /\ coll' = coll
              /\ pc'[h] = "idle"
              /\ outcome'[h] = Printed("success", "-")
      ]_vars

\* C11: a cycle on an empty results array has returned, the documents of
\* earlier cycles still stored.
C11_Witness ==
    /\ prev.fetched = Results(<<>>)
    /\ prev.clean
    /\ coll # {}
    /\ coll = prev.coll
    /\ \A h \in Handlers : pc[h] = "idle" /\ outcome[h].printed = "success"

\* The keys of the documents of collection c.
IdsOf(c) == {d["_id"] : d \in c}

\* C12. The store is changed only by sync and never shrinks: over GET /,
\* GET /data, GET /update-data and scheduler ticks, the collection changes
\* only in an iteration of the loop of a fetch_and_update_data() execution;
\* a step that is none of a sync (GET /, GET /data, a tick) leaves every
\* document as it is; and no step removes a key.
C12_OnlySyncWrites ==
    [][ /\ coll' # coll =>
              \E p \in Procs :
                  pc[p] = "loop" /\ pc'[p] = "loop" /\ idx'[p] = idx[p] + 1
        /\ (pc' = pc /\ idx' = idx) => coll' = coll
        /\ IdsOf(coll) \subseteq IdsOf(coll')
      ]_vars

\* C12: GET /data has returned documents, a scheduled sync has since
\* added to the store, and time has passed.
C12_Witness ==
    /\ reply.kind = "data"
    /\ reply.docs # {}
    /\ IdsOf(reply.docs) # IdsOf(coll)
    /\ outcome[Sched].printed = "success"
    /\ untilDue < Period

\* The recall numbers of what a cycle fetched (none when its request failed).
KeysFetched(fetched) ==
    IF fetched.kind = "results"
    THEN {fetched.results[j]["recall_number"] : j \in 1..Len(fetched.results)}
    ELSE {}

\* C13. History preservation: a step of a sync leaves every document in
\* place but the one whose key is the recall_number of the record being
\* written; so a whole cycle leaves every document whose key does not occur
\* in its fetch result as the cycle before it left it.
C13_HistoryPreserved ==
    [][ /\ \A d \in coll :
              \/ d \in coll'
              \/ \E h \in Handlers :
                    /\ pc[h] = "loop"
                    /\ idx[h] <= Len(data[h])
                    /\ data[h][idx[h]]["recall_number"] = d["_id"]
        /\ prev' # prev =>
              \A d \in prev.coll :
                  d["_id"] \notin KeysFetched(prev'.fetched) => d \in prev'.coll
      ]_vars

\* C13: a cycle that fetched only F-100 has written it and returned; the
\* document of F-200, of an earlier cycle, is still there.
C13_Witness ==
    /\ NoneRunning
    /\ prev.written >= 1
    /\ KeysFetched(prev.fetched) = {"F-100"}
    /\ \E d \in coll : d["_id"] = "F-200" /\ d["reason_for_recall"] = "Listeria"
    /\ \E d \in coll : d["_id"] = "F-100"

\* How many records of seq a sync writes when the store takes every
\* write: those before the first record without a recall_number.
Writable(seq) ==
    LET bad == {j \in 1..Len(seq) : seq[j]["recall_number"] = Missing}
    IN  IF bad = {} THEN Len(seq) ELSE (CHOOSE j \in bad : \A i \in bad : j <= i) - 1

\* The store one sync alone makes of store `base` by writing the first n
\* records of seq: per key and field the value of the last of them that has
\* the field, else the value the key's document had.
SingleSync(base, seq, n) ==
    LET keys == {seq[j]["recall_number"] : j \in 1..n}
        old(k, f) == IF DocsOf(base, k) = {}
                     THEN Missing
                     ELSE (CHOOSE d \in DocsOf(base, k) : TRUE)[f]
        doc(k) == [f \in DocFields |->
                     IF f = "_id" THEN k
                     ELSE LET at == {j \in 1..n : seq[j]["recall_number"] = k /\ seq[j][f] # Missing}
                          IN  IF at = {} THEN old(k, f)
                              ELSE seq[CHOOSE j \in at : \A i \in at : i <= j][f]]
    IN  {d \in base : d["_id"] \notin keys} \cup {doc(k) : k \in keys}

\* C14. Sync is safe to call concurrently: when the executions of
\* fetch_and_update_data() that overlap have all observed the same upstream
\* results and have all returned (no request and no store write failed),
\* the store is, whatever the interleaving of their writes, the store a
\* single sync on those results makes of the store they started from.
C14_ConcurrentSameResponse ==
    (overlap.kind = "same" /\ overlap.done >= 1 /\ NoneRunning) =>
        coll = SingleSync(overlap.base, overlap.fetched.results,
                          Writable(overlap.fetched.results))

\* C14: two overlapping syncs on the same two-record results have both
\* returned, and the store is not the one they started from.
C14_Witness ==
    /\ overlap.kind = "same"
    /\ overlap.done = 2
    /\ NoneRunning
    /\ Writable(overlap.fetched.results) = 2
    /\ overlap.fetched.results[1] # overlap.fetched.results[2]
    /\ coll # overlap.base

\* The payloads the handlers of GET / and GET /data return.
Payloads == {"none", "welcome", "data", "error"}

\* C15. A store failure during GET /data is returned as an error payload:
\* every answer of a read endpoint is a payload the handler returned, never
\* an exception that left it; and the step that answers {error: ...} changes
\* neither the store nor any sync in flight nor what another request got.
C15_ReadFailureIsPayload ==
    [][ /\ reply'.kind \in Payloads
        /\ (reply' # reply /\ reply'.kind = "error") =>
              UNCHANGED <<coll, pc, data, idx, outcome, resp, requests, untilDue>>
      ]_vars

\* C15: GET /data has answered {error: ...} while the store holds documents
\* and a GET /update-data request is in its loop.
C15_Witness ==
    /\ reply.kind = "error"
    /\ coll # {}
    /\ \E h \in Handlers : pc[h] = "loop" /\ idx[h] = 2

\* C16. One request per sync cycle: an execution of
\* fetch_and_update_data() has issued no upstream request while it waits for
\* the response and exactly one from then on, whether the request succeeded
\* or failed; and GET /update-data has its answer only once the one sync it
\* ran has returned, one request issued.
C16_OneRequestPerCycle ==
    /\ \A p \in Procs :
        /\ pc[p] = "fetch" => requests[p] = 0
        /\ pc[p] = "loop" => requests[p] = 1
        /\ (pc[p] = "idle" /\ outcome[p].printed # "none") => requests[p] = 1
    /\ \A h \in Handlers :
        resp[h] # "none" =>
            /\ pc[h] = "idle"
            /\ outcome[h].printed # "none"
            /\ requests[h] = 1

\* C16: GET /update-data has answered after a sync whose request failed,
\* and a scheduled sync whose request succeeded has returned.
C16_Witness ==
    /\ \E h \in Handlers :
        /\ resp[h] # "none"
        /\ outcome[h].e \in FetchFailures
        /\ requests[h] = 1
    /\ pc[Sched] = "idle"
    /\ outcome[Sched].printed = "success"
    /\ requests[Sched] = 1

\* C17. Sync phase ordering: within one sync cycle the store is as the
\* cycle found it for as long as the fetch has not completed, and from then
\* on it is at every state what the cycle found with the first idx - 1
\* fetched records written onto it in their order, a prefix of the fetched
\* sequence; once the cycle has returned the store is what it left.
C17_PhaseOrdering ==
    \A h \in Handlers :
        /\ pc[h] = "fetch" => coll = prev.coll
        /\ pc[h] = "loop" =>
            /\ idx[h] - 1 <= Len(data[h])
            /\ coll = SingleSync(prev.coll, data[h], idx[h] - 1)
        /\ pc[h] = "idle" => coll = prev.coll

\* C17: a cycle that fetched two records of different keys has written the
\* first and not yet the second, onto a store that held neither.
C17_Witness ==
    \E h \in Handlers :
        /\ pc[h] = "loop"
        /\ Len(data[h]) = 2
        /\ idx[h] = 2
        /\ data[h][1]["recall_number"] # data[h][2]["recall_number"]
        /\ data[h][2]["recall_number"] # Missing
        /\ DocsOf(coll, data[h][1]["recall_number"]) # {}
        /\ DocsOf(coll, data[h][2]["recall_number"]) = {}

\* Sync p has written all of its results: it is past its last record, or it
\* has returned from a loop that went through.
WroteAll(p) ==
    \/ pc[p] = "loop" /\ idx[p] > Len(data[p])
    \/ pc[p] = "idle" /\ outcome[p].printed = "success"

\* The keys of the results sync p fetched.
KeysOf(p) == {data[p][i]["recall_number"] : i \in 1..Len(data[p])}

\* C18. Last-write-wins per key under concurrent syncs: whatever the
\* interleaving of the syncs, a key that has been written has one document,
\* never two and never none, and it holds the field values of the write
\* applied last to the key; and when two syncs that fetched a record of the
\* same key have both written all their results, that last write is the
\* record one of the two wrote last for the key.
C18_LastWriteWins ==
    /\ \A k \in Keys :
        /\ Cardinality(DocsOf(coll, k)) <= 1
        /\ latest[k] # NoRec =>
              \E d \in DocsOf(coll, k) : Carries(d, latest[k])
    /\ \A p \in Procs, q \in Procs :
        (p # q /\ WroteAll(p) /\ WroteAll(q)) =>
            \A k \in (KeysOf(p) \cap KeysOf(q)) \ {Missing} :
                latest[k] \in {LastWith(data[p], Len(data[p]), k),
                               LastWith(data[q], Len(data[q]), k)}

\* C18: the scheduled sync and the sync of GET /update-data are both past
\* their last record, neither has returned, and they fetched different
\* records of F-100; one of the two is the last write, and the document
\* holds its reason.
C18_Witness ==
    \E h \in Handlers :
        /\ pc[Sched] = "loop" /\ idx[Sched] > Len(data[Sched])
        /\ pc[h] = "loop" /\ idx[h] > Len(data[h])
        /\ "F-100" \in KeysOf(Sched) \cap KeysOf(h)
        /\ LastWith(data[Sched], Len(data[Sched]), "F-100")
              # LastWith(data[h], Len(data[h]), "F-100")
        /\ latest["F-100"] = LastWith(data[h], Len(data[h]), "F-100")
        /\ \E d \in DocsOf(coll, "F-100") :
              d["reason_for_recall"] = latest["F-100"]["reason_for_recall"]

\* C19. Key/field agreement: in every reachable state every document of the
\* store has its recall_number field, and its key (_id) is that
\* recall_number.
C19_KeyFieldAgreement ==
    \A d \in coll :
        /\ d["recall_number"] # Missing
        /\ d["_id"] = d["recall_number"]

\* C19: the store holds the documents of F-100 and F-200, F-100 written
\* more than once (its reason is that of its second record).
C19_Witness ==
    /\ \E d \in coll : d["_id"] = "F-100" /\ d["reason_for_recall"] = "Salmonella"
                       /\ d["code_info"] = "LOT1"
    /\ \E d \in coll : d["_id"] = "F-200"

====
